---- MODULE Spec2Model ----
(***************************************************************************)
(* Model of src/graph.py: reduction of undirected multigraphs by local    *)
(* rules, with isomorphic graphs merged by weight.                        *)
(*                                                                         *)
(* A Graph object is a record [nodes, edges, count]; nodes is a sequence  *)
(* of labels, edges a sequence of sequences of labels (a Python list of   *)
(* lists), count the weight.  Python lists are 0-based; the sequences     *)
(* here are 1-based, and the loop index idx of main keeps the 0-based     *)
(* value of the list iterator.                                            *)
(***************************************************************************)
EXTENDS Integers, Sequences, FiniteSets, TLC

VARIABLES input, init, owner, queue, final, k, idx, pc, mark, skipped, call, heap

vars == <<input, init, owner, queue, final, k, idx, pc, mark, skipped, call, heap>>

\* ---------------------------------------------------------------- bounds
MaxEdges == 6
MaxLabel == 4
MaxOpEdges == 3
MaxAddEdges == 2
MaxList == 2
MaxCount == 2
MaxClasses == 3
MaxConvEdges == 1
MaxInitLabel == 2

\* Python's None (the value of k when no threshold applies).
None == -1

\* F(v), with v evaluated once and then used as a value wherever F uses it.
Bind(v, F(_)) == CHOOSE r \in {F(x) : x \in {v}} : TRUE

\* ------------------------------------------------------- list primitives
\* x in s
In(x, s) == \E i \in 1..Len(s) : s[i] = x

\* s.index(x), 1-based; x must occur in s.
IndexOf(s, x) == CHOOSE i \in 1..Len(s) : s[i] = x /\ \A j \in 1..(i-1) : s[j] # x

\* s.remove(x): drops the first element equal to x.
RemoveFirst(s, x) ==
    LET i == IndexOf(s, x)
    IN  SubSeq(s, 1, i-1) \o SubSeq(s, i+1, Len(s))

\* s.count(x)
CountOf(s, x) == Cardinality({i \in 1..Len(s) : s[i] = x})

RECURSIVE Insert(_, _)
Insert(s, x) ==
    IF s = <<>> THEN <<x>>
    ELSE IF x <= Head(s) THEN <<x>> \o s
    ELSE <<Head(s)>> \o Insert(Tail(s), x)

\* sorted(s) for a list of integers
RECURSIVE sorted(_)
sorted(s) ==
    IF s = <<>> THEN <<>> ELSE Bind(sorted(Tail(s)), LAMBDA t : Insert(t, Head(s)))

\* min(s) for a non-empty list of integers
min(s) == CHOOSE x \in {s[i] : i \in 1..Len(s)} : \A j \in 1..Len(s) : x <= s[j]

\* ------------------------------------------------------------- class Graph
\* The loop of Graph.__init__ that derives nodes: first-occurrence order.
RECURSIVE NodesOf(_, _)
NodesOf(edges, nodes) ==
    IF edges = <<>> THEN nodes
    ELSE LET e  == Head(edges)
             n1 == IF In(e[1], nodes) THEN nodes ELSE Append(nodes, e[1])
             n2 == IF In(e[2], n1) THEN n1 ELSE Append(n1, e[2])
         IN  Bind(n2, LAMBDA ns : NodesOf(Tail(edges), ns))

\* The test that lets the label 0 pass.
Invalid_negative(edges) == \E i \in 1..Len(edges) : edges[i][1] < 0 \/ edges[i][2] < 0

\* The test of Graph.__init__ that raises ValueError.
Invalid(edges) == \E i \in 1..Len(edges) : edges[i][1] <= 0 \/ edges[i][2] <= 0

\* Graph(edges, count), for edges that pass the test.
Graph(edges, count) == [nodes |-> NodesOf(edges, <<>>), edges |-> edges, count |-> count]

\* The call Graph(edges, *args), args being no argument or the count: the
\* exception raised, or the object constructed (count defaults to 1).
construct(edges, args) ==
    IF Invalid(edges)
    THEN [raised |-> "ValueError"]
    ELSE [raised |-> "none", g |-> Graph(edges, IF args = <<>> THEN 1 ELSE args[1])]

\* e[not e.index(n)]: e[1] of the Python list when n is its first element,
\* e[0] otherwise.
OtherEnd(e, n) == IF IndexOf(e, n) = 1 THEN e[2] ELSE e[1]

\* Graph.list_nei
RECURSIVE NeiFold(_, _)
NeiFold(edges, n) ==
    IF edges = <<>> THEN <<>>
    ELSE LET e == Head(edges)
         IN  (IF In(n, e) THEN <<OtherEnd(e, n)>> ELSE <<>>) \o NeiFold(Tail(edges), n)

list_nei(g, n) == NeiFold(g.edges, n)

\* The loop of Graph.remove_node over a copy of the edges, removing from
\* the live list.
RECURSIVE RemoveFold(_, _, _)
RemoveFold(copy, live, n) ==
    IF copy = <<>> THEN live
    ELSE LET e == Head(copy)
         IN  RemoveFold(Tail(copy), IF In(n, e) THEN RemoveFirst(live, e) ELSE live, n)

\* remove_node that leaves the edges of n in place.
remove_node_keepedges(g, n) == [g EXCEPT !.nodes = RemoveFirst(g.nodes, n)]

\* Graph.remove_node
remove_node(g, n) ==
    [g EXCEPT !.nodes = RemoveFirst(g.nodes, n),
              !.edges = RemoveFold(g.edges, g.edges, n)]

\* The loop of node_to_edge without its test for self-loops.
RECURSIVE ContractFold_loops(_, _, _, _)
ContractFold_loops(copy, live, nei, n) ==
    IF copy = <<>> THEN [edges |-> live, nei |-> nei]
    ELSE LET e == Head(copy)
         IN  IF In(n, e)
             THEN ContractFold_loops(Tail(copy), RemoveFirst(live, e),
                                     Append(nei, OtherEnd(e, n)), n)
             ELSE ContractFold_loops(Tail(copy), live, nei, n)

\* The loop of Graph.node_to_edge: the live edges and the list nei.
RECURSIVE ContractFold(_, _, _, _)
ContractFold(copy, live, nei, n) ==
    IF copy = <<>> THEN [edges |-> live, nei |-> nei]
    ELSE LET e == Head(copy)
         IN  IF In(n, e)
             THEN ContractFold(Tail(copy), RemoveFirst(live, e),
                               IF e[1] # e[2] THEN Append(nei, OtherEnd(e, n)) ELSE nei, n)
             ELSE ContractFold(Tail(copy), live, nei, n)

\* Graph.node_to_edge
node_to_edge(g, n) ==
    LET r == ContractFold(g.edges, g.edges, <<>>, n)
    IN  [g EXCEPT !.nodes = RemoveFirst(g.nodes, n),
                  !.edges = Append(r.edges, r.nei)]

\* --------------------------------------------------------------- iso_check
\* [len(g.list_nei(n)) for n in g.nodes]
Degrees(g) == [i \in 1..Len(g.nodes) |-> Len(list_nei(g, g.nodes[i]))]

\* The condition without the comparison of the edge counts.
prefilter_noedges(g1, g2) ==
    /\ Len(g1.nodes) = Len(g2.nodes)
    /\ sorted(Degrees(g1)) = sorted(Degrees(g2))

\* The condition of the if of iso_check.
prefilter(g1, g2) ==
    /\ Len(g1.nodes) = Len(g2.nodes)
    /\ Len(g1.edges) = Len(g2.edges)
    /\ sorted(Degrees(g1)) = sorted(Degrees(g2))

\* Nodes of the nx.MultiGraph built from g (add_nodes_from, add_edges_from).
NxNodes(g) == {g.nodes[i] : i \in 1..Len(g.nodes)}
              \cup UNION {{g.edges[i][1], g.edges[i][2]} : i \in 1..Len(g.edges)}

\* Number of edges of the multigraph between u and v.
Mult(g, u, v) == Cardinality({i \in 1..Len(g.edges) : {g.edges[i][1], g.edges[i][2]} = {u, v}})

\* The bijections of the nodes of g1 onto the nodes of g2 that extend f and
\* keep the number of edges between every two nodes: todo are the nodes of
\* g1 that f does not map yet, free the nodes of g2 that f does not reach.
\* TRUE if there is one.
RECURSIVE Matching(_, _, _, _, _)
Matching(g1, g2, todo, free, f) ==
    IF todo = {} THEN TRUE
    ELSE \E u \in {CHOOSE x \in todo : TRUE} : \E v \in free :
            /\ Mult(g1, u, u) = Mult(g2, v, v)
            /\ \A w \in DOMAIN f : Mult(g1, u, w) = Mult(g2, v, f[w])
            /\ Matching(g1, g2, todo \ {u}, free \ {v}, f @@ (u :> v))

\* nx.is_isomorphic on the two MultiGraphs: a bijection of the nodes that
\* keeps the number of edges between every two nodes.
is_isomorphic(g1, g2) ==
    \E N1 \in {NxNodes(g1)} : \E N2 \in {NxNodes(g2)} :
        /\ Cardinality(N1) = Cardinality(N2)
        /\ Matching(g1, g2, N1, N2, <<>>)

\* iso_check with the number of calls of nx.is_isomorphic it makes.
iso_trace(g1, g2) ==
    IF prefilter(g1, g2)
    THEN [ret |-> is_isomorphic(g1, g2), oracle |-> 1]
    ELSE [ret |-> FALSE, oracle |-> 0]

iso_check(g1, g2) == iso_trace(g1, g2).ret

\* ------------------------------------------------------- add_graph_to_list
\* Index of the entry of lst that add_graph_to_list merges g into, 0 if g
\* is appended.
MatchIndex(g, lst, add_iso) ==
    IF add_iso /\ \E i \in 1..Len(lst) : iso_check(g, lst[i])
    THEN CHOOSE i \in 1..Len(lst) :
            iso_check(g, lst[i]) /\ \A j \in 1..(i-1) : ~iso_check(g, lst[j])
    ELSE 0

\* add_graph_to_list that sets the weight of the match to that of g.
add_graph_to_list_overwrite(g, lst, add_iso) ==
    Bind(MatchIndex(g, lst, add_iso), LAMBDA i :
        IF i # 0 THEN [lst EXCEPT ![i].count = g.count]
        ELSE Append(lst, g))

\* add_graph_to_list that appends g whatever add_iso is.
add_graph_to_list_append(g, lst, add_iso) == Append(lst, g)

add_graph_to_list(g, lst, add_iso) ==
    Bind(MatchIndex(g, lst, add_iso), LAMBDA i :
        IF i # 0 THEN [lst EXCEPT ![i].count = lst[i].count + g.count]
        ELSE Append(lst, g))

\* ----------------------------------------------------------------- simplify
\* The dict with the values of the keys (1,1) and (1,0) exchanged.
choices_exchanged(c, l) ==
    CASE c = 1 /\ l = 1 -> 3
      [] c = 2 /\ l = 2 -> 4
      [] c = 0 /\ l = 0 -> 6
      [] c = 1 /\ l = 0 -> 4
      [] c = 2 /\ l = 1 -> 2
      [] OTHER -> 0

\* The dict choices; 0 when (c,l) is not a key.
choices(c, l) ==
    CASE c = 1 /\ l = 1 -> 4
      [] c = 2 /\ l = 2 -> 4
      [] c = 0 /\ l = 0 -> 6
      [] c = 1 /\ l = 0 -> 3
      [] c = 2 /\ l = 1 -> 2
      [] OTHER -> 0

\* The if / elif of the first loop of simplify for node n with its c and l;
\* st = [g, m, trace], where trace lists what was done to each visited node.
\* The rules with a contraction that leaves m as it was.
Pass1Rule_noflag(st, n, c, l) ==
    IF choices(c, l) # 0
    THEN [g |-> Bind([st.g EXCEPT !.count = st.g.count * choices(c, l)],
                     LAMBDA g : remove_node(g, n)),
          m |-> TRUE,
          trace |-> Append(st.trace, [n |-> n, c |-> c, l |-> l, rule |-> "table"])]
    ELSE IF c = 3 /\ l = 1
    THEN [g |-> node_to_edge(st.g, n),
          m |-> st.m,
          trace |-> Append(st.trace, [n |-> n, c |-> c, l |-> l, rule |-> "contract"])]
    ELSE [st EXCEPT !.trace = Append(st.trace, [n |-> n, c |-> c, l |-> l, rule |-> "none"])]

Pass1Rule(st, n, c, l) ==
    IF choices(c, l) # 0
    THEN [g |-> Bind([st.g EXCEPT !.count = st.g.count * choices(c, l)],
                     LAMBDA g : remove_node(g, n)),
          m |-> TRUE,
          trace |-> Append(st.trace, [n |-> n, c |-> c, l |-> l, rule |-> "table"])]
    ELSE IF c = 3 /\ l = 1
    THEN [g |-> node_to_edge(st.g, n),
          m |-> TRUE,
          trace |-> Append(st.trace, [n |-> n, c |-> c, l |-> l, rule |-> "contract"])]
    ELSE [st EXCEPT !.trace = Append(st.trace, [n |-> n, c |-> c, l |-> l, rule |-> "none"])]

\* One iteration of the first loop of simplify on node n.
Pass1Step(st, n) ==
    Bind(list_nei(st.g, n), LAMBDA nei : Pass1Rule(st, n, Len(nei), CountOf(nei, n)))

\* The first loop run over the live list g.nodes instead of the snapshot:
\* after a node is taken out of the list the iterator steps over the next.
RECURSIVE Pass1_live(_, _)
Pass1_live(st, nodes) ==
    IF nodes = <<>> THEN st
    ELSE Bind(Pass1Step(st, Head(nodes)), LAMBDA s :
            IF s.g.nodes # st.g.nodes /\ Len(nodes) >= 2
            THEN Pass1_live(s, Tail(Tail(nodes)))
            ELSE Pass1_live(s, Tail(nodes)))

\* The first loop of simplify, over the snapshot nodes.
RECURSIVE Pass1(_, _)
Pass1(st, nodes) ==
    IF nodes = <<>> THEN st
    ELSE Bind(Pass1Step(st, Head(nodes)), LAMBDA s : Pass1(s, Tail(nodes)))

\* The condition of the second loop of simplify.
Forkable(g, n) ==
    LET nei == list_nei(g, n)
    IN  Len(nei) = 2 /\ CountOf(nei, n) = 0

\* The last node with c == 2 and l == 0 instead of the first.
ForkNode_last(g) ==
    IF \E i \in 1..Len(g.nodes) : Forkable(g, g.nodes[i])
    THEN g.nodes[CHOOSE i \in 1..Len(g.nodes) :
                    Forkable(g, g.nodes[i])
                    /\ \A j \in (i+1)..Len(g.nodes) : ~Forkable(g, g.nodes[j])]
    ELSE 0

\* The node the second loop of simplify forks on, 0 if there is none.
ForkNode(g) ==
    IF \E i \in 1..Len(g.nodes) : Forkable(g, g.nodes[i])
    THEN g.nodes[CHOOSE i \in 1..Len(g.nodes) :
                    Forkable(g, g.nodes[i]) /\ \A j \in 1..(i-1) : ~Forkable(g, g.nodes[j])]
    ELSE 0

\* The fork whose second branch is returned without the contraction.
Fork_nocontract(p1, n) ==
    Bind([Graph(p1.g.edges, p1.g.count) EXCEPT !.nodes = p1.g.nodes], LAMBDA g1 :
    Bind([Graph(p1.g.edges, p1.g.count) EXCEPT !.nodes = p1.g.nodes], LAMBDA g2 :
        [graphs |-> <<remove_node(g1, n), g2>>, m |-> TRUE,
         post |-> p1.g, trace |-> p1.trace, fork |-> n]))

\* The body of the if of the second loop of simplify, for the node n.
Fork(p1, n) ==
    Bind([Graph(p1.g.edges, p1.g.count) EXCEPT !.nodes = p1.g.nodes], LAMBDA g1 :
    Bind([Graph(p1.g.edges, p1.g.count) EXCEPT !.nodes = p1.g.nodes], LAMBDA g2 :
        [graphs |-> <<remove_node(g1, n), node_to_edge(g2, n)>>, m |-> TRUE,
         post |-> p1.g, trace |-> p1.trace, fork |-> n]))

\* The second loop of simplify and the final return, on the result p1 of
\* the first loop.
Pass2(p1) ==
    Bind(ForkNode(p1.g), LAMBDA n :
        IF n # 0 THEN Fork(p1, n)
        ELSE [graphs |-> <<p1.g>>, m |-> p1.m,
              post |-> p1.g, trace |-> p1.trace, fork |-> 0])

\* simplify(g): graphs and m are the returned tuple; post is g as the first
\* loop left it, trace what the first loop did, fork the node forked on.
simplify(g) ==
    Bind(Pass1([g |-> g, m |-> FALSE, trace |-> <<>>], g.nodes), LAMBDA p1 : Pass2(p1))

\* ------------------------------------------------------ convert_irreducible
\* s without its element at position i (1-based).  lst.remove(g) compares
\* Graph objects by identity, and g is the element the iterator is at.
RemoveAt(s, i) == SubSeq(s, 1, i-1) \o SubSeq(s, i+1, Len(s))

\* Position in irr of the first p with iso_check(g, p), 0 if there is none:
\* the inner for loop with its break.
FirstRef(g, irr) ==
    IF \E j \in 1..Len(irr) : iso_check(g, irr[j])
    THEN CHOOSE j \in 1..Len(irr) :
            iso_check(g, irr[j]) /\ \A j2 \in 1..(j-1) : ~iso_check(g, irr[j2])
    ELSE 0

\* The outer loop with count multiplied by p.count alone.
RECURSIVE ConvFor_novalue(_, _, _, _)
ConvFor_novalue(lst, irr, i, acc) ==
    IF i >= Len(lst) THEN [acc EXCEPT !.lst = lst]
    ELSE Bind(FirstRef(lst[i+1], irr), LAMBDA j :
        IF j # 0
        THEN ConvFor_novalue(RemoveAt(lst, i+1), irr, i+1,
                     [acc EXCEPT !.count = acc.count * irr[j].count,
                                 !.m = TRUE,
                                 !.removed = Append(acc.removed, lst[i+1])])
        ELSE ConvFor_novalue(lst, irr, i+1, acc))

\* The outer loop `for g in lst` of convert_irreducible from the 0-based
\* position i of the list iterator on; lst is the live list, acc holds
\* count, m and the graphs removed so far.
RECURSIVE ConvFor(_, _, _, _)
ConvFor(lst, irr, i, acc) ==
    IF i >= Len(lst) THEN [acc EXCEPT !.lst = lst]
    ELSE Bind(FirstRef(lst[i+1], irr), LAMBDA j :
        IF j # 0
        THEN ConvFor(RemoveAt(lst, i+1), irr, i+1,
                     [acc EXCEPT !.count = acc.count * irr[j].count * lst[i+1].count,
                                 !.m = TRUE,
                                 !.removed = Append(acc.removed, lst[i+1])])
        ELSE ConvFor(lst, irr, i+1, acc))

\* convert_irreducible(lst, irr): ret is the returned list, count and m the
\* locals at the end, removed the graphs taken out of lst.
conv_trace(lst, irr) ==
    IF irr = <<>>
    THEN [ret |-> lst, count |-> 1, m |-> FALSE, removed |-> <<>>]
    ELSE Bind(ConvFor(lst, irr, 0, [lst |-> lst, count |-> 1, m |-> FALSE, removed |-> <<>>]),
              LAMBDA r :
                 [ret |-> IF r.m THEN add_graph_to_list(Graph(<<>>, r.count), r.lst, TRUE)
                                 ELSE r.lst,
                  count |-> r.count, m |-> r.m, removed |-> r.removed])

convert_irreducible(lst, irr) == conv_trace(lst, irr).ret

\* --------------------------------------------------------------------- main
\* max(s) for a non-empty list of integers
max(s) == CHOOSE x \in {s[i] : i \in 1..Len(s)} : \A j \in 1..Len(s) : x >= s[j]

\* The threshold taken as the largest node count instead of the least.
threshold_max(q) ==
    LET dimensions == [i \in 1..Len(q) |-> Len(q[i].nodes)]
    IN  IF Cardinality({dimensions[i] : i \in 1..Len(q)}) > 1 THEN max(dimensions) ELSE None

\* k = min(dimensions) if len(set(dimensions))>1 else None
threshold(q) ==
    LET dimensions == [i \in 1..Len(q) |-> Len(q[i].nodes)]
    IN  IF Cardinality({dimensions[i] : i \in 1..Len(q)}) > 1 THEN min(dimensions) ELSE None

\* not k
Falsy(kk) == kk = None \/ kk = 0

\* g has more nodes than the threshold kk, or there is no threshold.
Exceeds(g, kk) == kk = None \/ Len(g.nodes) > kk

\* The condition of the if in the for loop of main.
Selected(g, kk) == Falsy(kk) \/ Len(g.nodes) > kk

\* What main does with the result r of simplify: q1 is queue after
\* queue.remove(g), f is final.
Dispatch(q1, f, r) ==
    IF ~r.m
    THEN [queue |-> q1, final |-> add_graph_to_list(r.graphs[1], f, TRUE), r |-> r]
    ELSE IF Len(r.graphs) = 1
    THEN [queue |-> add_graph_to_list(r.graphs[1], q1, TRUE), final |-> f, r |-> r]
    ELSE Bind(add_graph_to_list(r.graphs[1], q1, TRUE),
              LAMBDA q2 : [queue |-> add_graph_to_list(r.graphs[2], q2, TRUE),
                           final |-> f, r |-> r])

\* The body of the if of the for loop, for the graph at 0-based position i
\* of q.
body(q, f, i) ==
    Bind(simplify(q[i+1]), LAMBDA r : Dispatch(RemoveFirst(q, q[i+1]), f, r))

\* ------------------------------------------------------ reference driver
\* main with k = None in every outer iteration: the while loop and its for
\* loop, as functions of the queue q, the list f and the 0-based index i.
RECURSIVE RefWhile(_, _)
RECURSIVE RefFor(_, _, _)
RefWhile(q, f) == IF q = <<>> THEN f ELSE RefFor(q, f, 0)

RefFor(q, f, i) ==
    IF i >= Len(q) THEN RefWhile(q, f)
    ELSE Bind(body(q, f, i), LAMBDA b : RefFor(b.queue, b.final, i + 1))

RefMain(edges) == RefWhile(<<Graph(edges, 1)>>, <<>>)

\* ------------------------------------------------------------------- inputs
\* The inputs: edge lists of at most MaxEdges edges over at most MaxLabel
\* labels.  The program compares labels with each other only for equality,
\* so the labels are named 1, 2, ... in the order of their first occurrence;
\* every edge is written [a, b] with a <= b and the list is in ascending
\* order.  A multigraph is listed under a breadth-first numbering of its
\* nodes.
Used(s) == Len(NodesOf(s, <<>>))

NotBefore(e, s) ==
    \/ s = <<>>
    \/ e[1] > s[Len(s)][1]
    \/ e[1] = s[Len(s)][1] /\ e[2] >= s[Len(s)][2]

Extend(s) ==
    {Append(s, e) : e \in {d \in (1..MaxLabel) \X (1..MaxLabel) :
                              /\ d[1] <= d[2]
                              /\ d[1] <= Used(s) + 1
                              /\ d[2] <= (IF d[1] > Used(s) THEN d[1] ELSE Used(s)) + 1
                              /\ NotBefore(d, s)}}

RECURSIVE ListsOfLen(_)
ListsOfLen(n) == IF n = 0 THEN {<<>>} ELSE UNION {Extend(s) : s \in ListsOfLen(n-1)}

EdgeLists == UNION {ListsOfLen(n) : n \in 0..MaxEdges}

NoCall == [fn |-> "none"]

\* No list objects allocated: heap is used where the identity of the lists
\* of a Graph matters.
NoHeap == [store |-> <<>>]

\* main up to the while loop: ig = Graph(init); queue = [ig]; final = [].
\* ig.edges is the caller's list init itself; owner is the position in
\* queue of the graph whose edges are that list (0: none).
Init ==
    /\ input \in EdgeLists
    /\ init = input
    /\ queue = <<Graph(input, 1)>>
    /\ owner = 1
    /\ final = <<>>
    /\ k = None
    /\ idx = 0
    /\ pc = "while"
    /\ mark = <<>>
    /\ skipped = FALSE
    /\ call = NoCall
    /\ heap = NoHeap

\* while queue: ... k = ...; for g in queue:
\* mark[i] tells whether queue[i] was in queue at this point with more nodes
\* than k (or with no threshold), and has not been passed to simplify since.
WhileEnter ==
    /\ pc = "while"
    /\ queue # <<>>
    /\ k' = threshold(queue)
    /\ idx' = 0
    /\ pc' = "for"
    /\ mark' = [i \in 1..Len(queue) |-> Exceeds(queue[i], threshold(queue))]
    /\ call' = NoCall
    /\ UNCHANGED <<input, init, owner, queue, final, skipped, heap>>

\* The for loop takes queue[idx] and the if is false.  skipped tells
\* whether the threshold has passed over a graph since main started.
ForSkip ==
    /\ pc = "for"
    /\ idx < Len(queue)
    /\ ~Selected(queue[idx+1], k)
    /\ idx' = idx + 1
    /\ skipped' = TRUE
    /\ call' = [fn |-> "skip", g |-> queue[idx+1]]
    /\ UNCHANGED <<input, init, owner, queue, final, k, pc, mark, heap>>

\* The for loop takes queue[idx] and the if is true.
ForSimplify ==
    /\ pc = "for"
    /\ idx < Len(queue)
    /\ Selected(queue[idx+1], k)
    /\ \E b \in {body(queue, final, idx)} :
       LET m1 == SubSeq(mark, 1, idx) \o SubSeq(mark, idx+2, Len(mark))
       IN  /\ queue' = b.queue
           /\ final' = b.final
           /\ mark' = m1 \o [i \in 1..(Len(b.queue) - Len(m1)) |-> FALSE]
           /\ call' = [fn |-> "simplify", g |-> queue[idx+1], ret |-> b.r]
           /\ init' = IF owner = idx + 1 THEN b.r.post.edges ELSE init
           /\ owner' = IF owner = idx + 1
                       THEN (IF b.r.m /\ b.r.fork = 0 /\ Len(b.queue) = Len(queue)
                             THEN Len(b.queue) ELSE 0)
                       ELSE IF owner > idx + 1 THEN owner - 1 ELSE owner
    /\ idx' = idx + 1
    /\ UNCHANGED <<input, k, pc, skipped, heap>>

\* The for loop is exhausted.
ForEnd ==
    /\ pc = "for"
    /\ idx >= Len(queue)
    /\ pc' = "while"
    /\ UNCHANGED <<input, init, owner, queue, final, k, idx, mark, skipped, call, heap>>

\* while queue is false: return final.
Return ==
    /\ pc = "while"
    /\ queue = <<>>
    /\ pc' = "done"
    /\ UNCHANGED <<input, init, owner, queue, final, k, idx, mark, skipped, call, heap>>

Next == WhileEnter \/ ForSkip \/ ForSimplify \/ ForEnd \/ Return

Spec == Init /\ [][Next]_vars

\* The scheduling of main: a sequential program takes its next step as long
\* as it has one.
LiveSpec == Spec /\ WF_vars(Next)

\* An edge list of nine edges on six nodes on which the order in which main
\* simplifies the queued graphs matters.
WideEdges ==
    <<<<1, 2>>, <<1, 3>>, <<1, 4>>, <<2, 2>>, <<2, 5>>, <<2, 6>>, <<2, 6>>,
      <<3, 4>>, <<3, 5>>>>

\* The sublists of es: some edges left out, the others in order.
RECURSIVE SubLists(_)
SubLists(es) ==
    IF es = <<>> THEN {<<>>}
    ELSE Bind(SubLists(Tail(es)),
              LAMBDA rest : rest \cup {<<Head(es)>> \o t : t \in rest})

\* main called on WideEdges or on one of its sublists.
WideInit ==
    /\ input \in SubLists(WideEdges)
    /\ init = input
    /\ queue = <<Graph(input, 1)>>
    /\ owner = 1
    /\ final = <<>>
    /\ k = None
    /\ idx = 0
    /\ pc = "while"
    /\ mark = <<>>
    /\ skipped = FALSE
    /\ call = NoCall
    /\ heap = NoHeap

WideSpec == WideInit /\ [][Next]_vars

\* ------------------------------------------------------------------ claims
\* Some two entries of lst at different positions are isomorphic.
HasIsoPair(lst) ==
    \E i, j \in 1..Len(lst) : i # j /\ iso_check(lst[i], lst[j])

\* C1: main terminates: it reaches its return with the queue empty, and then
\* simplify reports modified = false for every graph of final.
C1_Terminates ==
    /\ <>(pc = "done")
    /\ [](pc = "done" =>
            /\ queue = <<>>
            /\ \A i \in 1..Len(final) : ~simplify(final[i]).m)

\* main has returned two classes, one of them a graph that still has nodes.
C1_Witness ==
    /\ pc = "done"
    /\ Len(final) = 2
    /\ \E i \in 1..Len(final) : final[i].nodes # <<>>

\* C2: in every state of main no two entries of final are isomorphic and no
\* two entries of queue are isomorphic.
C2_OnePerClass == ~HasIsoPair(queue) /\ ~HasIsoPair(final)

\* A branch returned by simplify was merged into an entry that queue held
\* already, while queue holds other entries too.
C2_Witness ==
    /\ call.fn = "simplify"
    /\ call.ret.m
    /\ Len(queue) >= 2
    /\ \E i \in 1..Len(queue) : \E j \in 1..Len(call.ret.graphs) :
          /\ iso_check(call.ret.graphs[j], queue[i])
          /\ queue[i].count > call.ret.graphs[j].count

\* C3: when the for loop of an outer iteration ends, every graph that was in
\* queue when the iteration started and had more nodes than k (every graph,
\* with no threshold) has been removed and passed to simplify.
C3_NoneSkipped ==
    (pc = "for" /\ idx >= Len(queue)) => \A i \in 1..Len(mark) : ~mark[i]

\* C4: with more than one node count in queue, k is the least node count,
\* and a graph is simplified in that iteration only if it has more than k
\* nodes (also when k = 0).
C4_OnlyAboveThreshold ==
    /\ (pc = "for" /\ idx = 0 /\ call = NoCall /\
        \E i, j \in 1..Len(queue) : Len(queue[i].nodes) # Len(queue[j].nodes))
          => /\ \E i \in 1..Len(queue) : k = Len(queue[i].nodes)
             /\ \A i \in 1..Len(queue) : k <= Len(queue[i].nodes)
    /\ (call.fn = "simplify" /\ k # None) => Len(call.g.nodes) > k

\* Sum of the weights of the entries of f isomorphic to g.
RECURSIVE ClassWeight(_, _)
ClassWeight(g, f) ==
    IF f = <<>> THEN 0
    ELSE (IF iso_check(g, Head(f)) THEN Head(f).count ELSE 0) + ClassWeight(g, Tail(f))

\* f1 and f2 hold the same isomorphism classes with the same total weights.
SameClasses(f1, f2) ==
    /\ \A i \in 1..Len(f1) : ClassWeight(f1[i], f2) = ClassWeight(f1[i], f1)
    /\ \A i \in 1..Len(f2) : ClassWeight(f2[i], f1) = ClassWeight(f2[i], f2)

\* C5: what main returns and what the driver without threshold returns for
\* the same edge list hold the same isomorphism classes, each with the same
\* aggregated weight.
C5_ThresholdNeutral ==
    pc = "done" => SameClasses(final, RefMain(input))

\* main has returned after a run in which the threshold passed over a graph
\* that the driver without threshold simplifies at once, and its list is in
\* another order than the list of that driver.
C5_Witness ==
    /\ pc = "done"
    /\ skipped
    /\ Len(final) > 1
    /\ final # RefMain(input)

\* ------------------------------------------- the functions called directly
\* Graphs to call the functions on: a list of at most n edges with its
\* nodes in the order Graph gives them, alone or followed by one more node
\* that has no edge (as remove_node leaves behind).
NodeOrders(es) ==
    LET ns == NodesOf(es, <<>>)
    IN  {ns, Append(ns, Len(ns) + 1)}

GraphsUpTo(n, counts) ==
    UNION {{[nodes |-> ns, edges |-> es, count |-> c] :
                ns \in NodeOrders(es), c \in counts} :
           es \in UNION {ListsOfLen(j) : j \in 0..n}}

\* The graphs Graph(es, c) of the lists es of at most n edges.
Plain(n, counts) ==
    {Graph(es, c) : es \in UNION {ListsOfLen(j) : j \in 0..n}, c \in counts}

\* Lists of at most MaxList graphs, each a copy of g or of h, the entry at
\* position i with weight i + 1.
ListsOf(g, h) ==
    UNION {{[i \in 1..n |-> [f[i] EXCEPT !.count = i + 1]] : f \in [1..n -> {g, h}]} :
           n \in 0..MaxList}

\* The state before a function is called directly.
InitOp ==
    /\ input = <<>>
    /\ init = <<>>
    /\ owner = 0
    /\ queue = <<>>
    /\ final = <<>>
    /\ k = None
    /\ idx = 0
    /\ pc = "op"
    /\ mark = <<>>
    /\ skipped = FALSE
    /\ call = NoCall
    /\ heap = NoHeap

mainVars == <<input, init, owner, queue, final, k, idx, pc, mark, skipped, heap>>

\* iso_check(g1, g2)
CallIso ==
    /\ pc = "op"
    /\ call = NoCall
    /\ \E g1 \in GraphsUpTo(MaxOpEdges, {1}) :
       \E g2 \in Plain(MaxOpEdges, {1}) :
          call' = [fn |-> "iso_check", g1 |-> g1, g2 |-> g2, ret |-> iso_trace(g1, g2)]
    /\ UNCHANGED mainVars

\* add_graph_to_list(g, lst, add_iso)
CallAdd ==
    /\ pc = "op"
    /\ call = NoCall
    /\ \E g \in Plain(MaxAddEdges, {MaxCount}) : \E h \in Plain(MaxAddEdges, {1}) :
       \E lst \in ListsOf(g, h) : \E add_iso \in BOOLEAN :
          call' = [fn |-> "add_graph_to_list", g |-> g, lst |-> lst, add_iso |-> add_iso,
                   ret |-> add_graph_to_list(g, lst, add_iso)]
    /\ UNCHANGED mainVars

\* g.node_to_edge(n)
CallContract ==
    /\ pc = "op"
    /\ call = NoCall
    /\ \E g \in GraphsUpTo(MaxOpEdges, 1..MaxCount) : \E i \in 1..Len(g.nodes) :
          call' = [fn |-> "node_to_edge", g |-> g, n |-> g.nodes[i],
                   ret |-> node_to_edge(g, g.nodes[i])]
    /\ UNCHANGED mainVars

\* The reference lists made of g and h: each with its value, 5 for g and 7
\* for h.
RefLists(g, h) ==
    LET rg == [g EXCEPT !.count = 5]
        rh == [h EXCEPT !.count = 7]
    IN  {<<>>, <<rg>>, <<rh>>, <<rg, rh>>, <<rh, rg>>}

\* Lists of at most MaxClasses graphs, each a copy of g, of h or of the
\* graph without nodes, the entry at position i with weight i + 1.
ClassLists(g, h) ==
    UNION {{[i \in 1..n |-> [f[i] EXCEPT !.count = i + 1]] :
                f \in [1..n -> {g, h, Graph(<<>>, 1)}]} :
           n \in 0..MaxClasses}

\* convert_irreducible(lst, irr)
CallConvert ==
    /\ pc = "op"
    /\ call = NoCall
    /\ \E g \in Plain(MaxConvEdges, {1}) : \E h \in Plain(MaxConvEdges, {1}) :
       \E lst \in ClassLists(g, h) : \E irr \in RefLists(g, h) :
          call' = [fn |-> "convert_irreducible", lst |-> lst, irr |-> irr,
                   ret |-> conv_trace(lst, irr)]
    /\ UNCHANGED mainVars

\* Edge lists of at most n edges whose labels are integers from -1 to
\* MaxInitLabel, valid or not, in any order.
RECURSIVE RawLists(_)
RawLists(n) ==
    IF n = 0 THEN {<<>>}
    ELSE Bind(RawLists(n - 1), LAMBDA S :
            S \cup {Append(s, <<a, b>>) :
                        s \in {t \in S : Len(t) = n - 1},
                        a \in (-1)..MaxInitLabel, b \in (-1)..MaxInitLabel})

\* Graph(edges) and Graph(edges, count)
CallGraph ==
    /\ pc = "op"
    /\ call = NoCall
    /\ \E edges \in RawLists(MaxAddEdges) :
       \E args \in {<<>>} \cup {<<c>> : c \in 1..MaxCount} :
          call' = [fn |-> "Graph", edges |-> edges, args |-> args,
                   ret |-> construct(edges, args)]
    /\ UNCHANGED mainVars

\* -------------------------------------------------- the fork, list by list
\* heap.store holds the list objects, a list being known by its position in
\* store; a Graph object is [nodes, edges, count] with nodes and edges the
\* positions of its two lists.  The edges themselves ([a, b]) are values:
\* no statement of the program changes an edge once it is in a list.

\* The contents of the Graph object o.
Deref(store, o) == [nodes |-> store[o.nodes], edges |-> store[o.edges], count |-> o.count]

\* The assignment of the list itself instead of a copy of it.
copy_alias(store, id) == [store |-> store, id |-> id]

\* l.copy(): a new list object with the elements of the list at id.
copy(store, id) == [store |-> Append(store, store[id]), id |-> Len(store) + 1]

\* The lists of the object o after a method changed them in place to those
\* of the value g2.
Store(store, o, g2) == [store EXCEPT ![o.nodes] = g2.nodes, ![o.edges] = g2.edges]

\* simplify is in its second loop on a graph g with a node n to fork on;
\* nodes = g.nodes.copy() has been executed.
ForkInit ==
    /\ input = <<>>
    /\ init = <<>>
    /\ owner = 0
    /\ queue = <<>>
    /\ final = <<>>
    /\ k = None
    /\ idx = 0
    /\ pc = "fork130"
    /\ mark = <<>>
    /\ skipped = FALSE
    /\ call = NoCall
    /\ \E g0 \in {g \in Plain(MaxOpEdges, {MaxCount}) : ForkNode(g) # 0} :
          \E c \in {copy(<<g0.nodes, g0.edges>>, 1)} :
             heap = [store |-> c.store,
                     g |-> [nodes |-> 1, edges |-> 2, count |-> g0.count],
                     nodes |-> c.id,
                     n |-> ForkNode(g0),
                     snap |-> [g |-> g0],
                     on |-> "none"]

forkVars == <<input, init, owner, queue, final, k, idx, mark, skipped, call>>

\* g1 = Graph(g.edges.copy(), g.count); g1.nodes = nodes.copy()
\* g2 = Graph(g.edges.copy(), g.count); g2.nodes = nodes.copy()
ForkCopy ==
    /\ pc = "fork130"
    /\ \E e1 \in {copy(heap.store, heap.g.edges)} :
       \E n1 \in {copy(e1.store, heap.nodes)} :
       \E e2 \in {copy(n1.store, heap.g.edges)} :
       \E n2 \in {copy(e2.store, heap.nodes)} :
          heap' = [store |-> n2.store, g |-> heap.g, nodes |-> heap.nodes, n |-> heap.n,
                   snap |-> heap.snap, on |-> "none",
                   a |-> [nodes |-> n1.id, edges |-> e1.id, count |-> heap.g.count],
                   b |-> [nodes |-> n2.id, edges |-> e2.id, count |-> heap.g.count]]
    /\ pc' = "fork134"
    /\ UNCHANGED forkVars

\* g1.remove_node(n)
ForkRemove ==
    /\ pc = "fork134"
    /\ heap' = [heap EXCEPT
                  !.store = Store(heap.store, heap.a,
                                  remove_node(Deref(heap.store, heap.a), heap.n))]
    /\ pc' = "fork135"
    /\ UNCHANGED forkVars

\* g2.node_to_edge(n); return ([g1,g2], True).  snap keeps what g1 and g2
\* hold when they are returned.
ForkContract ==
    /\ pc = "fork135"
    /\ \E st \in {Store(heap.store, heap.b,
                         node_to_edge(Deref(heap.store, heap.b), heap.n))} :
          heap' = [heap EXCEPT
                      !.store = st,
                      !.snap = [g |-> heap.snap.g,
                                a |-> Deref(st, heap.a),
                                b |-> Deref(st, heap.b)]]
    /\ pc' = "forked"
    /\ UNCHANGED forkVars

\* The branch heap.a or heap.b by its name.
Branch(x) == IF x = "a" THEN heap.a ELSE heap.b

\* Number of edges of g that join n to another node.
Links(g, n) ==
    Cardinality({i \in 1..Len(g.edges) : In(n, g.edges[i]) /\ g.edges[i][1] # g.edges[i][2]})

\* x.remove_node(n) on a returned branch x, always the same branch.
BranchRemove ==
    /\ pc = "forked"
    /\ \E x \in {"a", "b"} :
          /\ heap.on \in {"none", x}
          /\ \E i \in 1..Len(heap.store[Branch(x).nodes]) :
                heap' = [heap EXCEPT
                            !.store = Store(heap.store, Branch(x),
                                            remove_node(Deref(heap.store, Branch(x)),
                                                        heap.store[Branch(x).nodes][i])),
                            !.on = x]
    /\ UNCHANGED <<pc, forkVars>>

\* x.node_to_edge(n) on a returned branch x, for a node n with two edges to
\* other nodes.
BranchContract ==
    /\ pc = "forked"
    /\ \E x \in {"a", "b"} :
          /\ heap.on \in {"none", x}
          /\ \E i \in 1..Len(heap.store[Branch(x).nodes]) :
                /\ Links(Deref(heap.store, Branch(x)), heap.store[Branch(x).nodes][i]) = 2
                /\ heap' = [heap EXCEPT
                               !.store = Store(heap.store, Branch(x),
                                               node_to_edge(Deref(heap.store, Branch(x)),
                                                            heap.store[Branch(x).nodes][i])),
                               !.on = x]
    /\ UNCHANGED <<pc, forkVars>>

\* simplify(x) on a returned branch x: its first loop changes x in place,
\* its second loop builds new objects.
BranchSimplify ==
    /\ pc = "forked"
    /\ \E x \in {"a", "b"} :
          /\ heap.on \in {"none", x}
          /\ \E r \in {simplify(Deref(heap.store, Branch(x)))} :
                heap' = [heap EXCEPT
                            !.store = Store(heap.store, Branch(x), r.post),
                            ![x].count = r.post.count,
                            !.on = x]
    /\ UNCHANGED <<pc, forkVars>>

ForkNext ==
    ForkCopy \/ ForkRemove \/ ForkContract \/ BranchRemove \/ BranchContract \/ BranchSimplify

ForkSpec == ForkInit /\ [][ForkNext]_vars

\* Each function called once, on its own.
IsoSpec == InitOp /\ [][CallIso]_vars

AddSpec == InitOp /\ [][CallAdd]_vars

ContractSpec == InitOp /\ [][CallContract]_vars

ConvertSpec == InitOp /\ [][CallConvert]_vars

GraphSpec == InitOp /\ [][CallGraph]_vars

\* ------------------------------------------- claims on simplify and below
\* Some rule of the first loop was applied in the call of simplify recorded
\* in r.
Pass1Applied(r) == \E i \in 1..Len(r.trace) : r.trace[i].rule # "none"

\* C6: simplify returns modified = false exactly when its first loop applied
\* no table rule and no contraction and its second loop did not fork; it
\* then returns the one graph it was given, unchanged, and simplify of that
\* graph again returns modified = false.
C6_FixedPoint ==
    call.fn = "simplify" =>
        /\ ~call.ret.m <=> (~Pass1Applied(call.ret) /\ call.ret.fork = 0)
        /\ ~call.ret.m =>
              /\ call.ret.graphs = <<call.g>>
              /\ ~simplify(call.ret.graphs[1]).m

\* simplify has returned modified = false for a graph that has nodes and
\* edges.
C6_Witness ==
    /\ call.fn = "simplify"
    /\ ~call.ret.m
    /\ Len(call.g.nodes) >= 2
    /\ call.g.edges # <<>>

\* C7: when simplify returns modified = true, every graph it returns has
\* fewer nodes than the graph it was called on.
C7_FewerNodes ==
    (call.fn = "simplify" /\ call.ret.m) =>
        \A i \in 1..Len(call.ret.graphs) :
            Len(call.ret.graphs[i].nodes) < Len(call.g.nodes)

\* simplify has forked after its first loop removed or contracted a node.
C7_Witness ==
    /\ call.fn = "simplify"
    /\ call.ret.m
    /\ Len(call.ret.graphs) = 2
    /\ Pass1Applied(call.ret)

\* Positions of the entries of lst that are isomorphic to g.
Matches(g, lst) == {i \in 1..Len(lst) : iso_check(g, lst[i])}

\* C8: add_graph_to_list with add_iso true and an isomorphic entry in lst
\* adds g.count to the first such entry and changes nothing else; otherwise
\* it appends g unchanged after the unchanged entries.
C8_AddToGroup ==
    call.fn = "add_graph_to_list" =>
        IF call.add_iso /\ Matches(call.g, call.lst) # {}
        THEN LET i == CHOOSE j \in Matches(call.g, call.lst) :
                          \A j2 \in Matches(call.g, call.lst) : j <= j2
             IN  /\ Len(call.ret) = Len(call.lst)
                 /\ call.ret[i] = [call.lst[i] EXCEPT !.count = call.lst[i].count + call.g.count]
                 /\ \A j \in 1..Len(call.lst) : j # i => call.ret[j] = call.lst[j]
        ELSE /\ Len(call.ret) = Len(call.lst) + 1
             /\ call.ret[Len(call.ret)] = call.g
             /\ \A j \in 1..Len(call.lst) : call.ret[j] = call.lst[j]

\* add_graph_to_list has merged g into the second entry of a list whose
\* first entry is not isomorphic to g.
C8_Witness ==
    /\ call.fn = "add_graph_to_list"
    /\ call.add_iso
    /\ Len(call.lst) = 2
    /\ Matches(call.g, call.lst) = {2}
    /\ call.ret[2].count = call.lst[2].count + call.g.count

\* C9: iso_check(a, a) and iso_check(b, b) are true, iso_check(a, b) equals
\* iso_check(b, a), and if a and b differ in the number of nodes, the number
\* of edges or the sorted lengths of the neighbour lists, iso_check(a, b) is
\* false and nx.is_isomorphic was not called.
C9_IsoRelation ==
    call.fn = "iso_check" =>
        /\ iso_check(call.g1, call.g1)
        /\ iso_check(call.g2, call.g2)
        /\ call.ret.ret = iso_check(call.g2, call.g1)
        /\ (\/ Len(call.g1.nodes) # Len(call.g2.nodes)
            \/ Len(call.g1.edges) # Len(call.g2.edges)
            \/ sorted(Degrees(call.g1)) # sorted(Degrees(call.g2)))
              => (~call.ret.ret /\ call.ret.oracle = 0)

\* iso_check was called on two graphs with as many nodes and the same
\* neighbour counts but another number of edges.
C9_Witness ==
    /\ call.fn = "iso_check"
    /\ Len(call.g1.nodes) = Len(call.g2.nodes)
    /\ sorted(Degrees(call.g1)) = sorted(Degrees(call.g2))
    /\ Len(call.g1.edges) # Len(call.g2.edges)
    /\ ~call.ret.ret

\* Positions of the edges of g that join n to another node.
NonLoops(g, n) ==
    {i \in 1..Len(g.edges) : In(n, g.edges[i]) /\ g.edges[i][1] # g.edges[i][2]}

\* The end of the edge e that is not n.
NeighbourIn(e, n) == IF e[1] = n THEN e[2] ELSE e[1]

\* C10: node_to_edge(n) on a node n with exactly two edges to other nodes
\* removes n from nodes, removes every edge at n (self-loops of n too),
\* keeps all other nodes and edges in order, and appends one edge whose two
\* ends are the two former neighbours of n.
C10_Contract ==
    (call.fn = "node_to_edge" /\ Cardinality(NonLoops(call.g, call.n)) = 2) =>
        LET g    == call.g
            n    == call.n
            kept == SelectSeq(g.edges, LAMBDA e : ~In(n, e))
            i1   == CHOOSE i \in NonLoops(g, n) : \A j \in NonLoops(g, n) : i <= j
            i2   == CHOOSE i \in NonLoops(g, n) : \A j \in NonLoops(g, n) : i >= j
            m1   == NeighbourIn(g.edges[i1], n)
            m2   == NeighbourIn(g.edges[i2], n)
            new  == call.ret.edges[Len(call.ret.edges)]
        IN  /\ call.ret.nodes = SelectSeq(g.nodes, LAMBDA x : x # n)
            /\ Len(call.ret.nodes) = Len(g.nodes) - 1
            /\ call.ret.count = g.count
            /\ Len(call.ret.edges) = Len(kept) + 1
            /\ SubSeq(call.ret.edges, 1, Len(kept)) = kept
            /\ new = <<m1, m2>> \/ new = <<m2, m1>>

\* node_to_edge was called on a node with a self-loop and two edges to
\* other nodes.
C10_Witness ==
    /\ call.fn = "node_to_edge"
    /\ Cardinality(NonLoops(call.g, call.n)) = 2
    /\ In(<<call.n, call.n>>, call.g.edges)
    /\ Len(call.ret.edges) = 1

\* --------------------------------------------- claims on convert_irreducible
\* Positions of the classes of lst that are isomorphic to an entry of irr.
Matched(lst, irr) == {i \in 1..Len(lst) : FirstRef(lst[i], irr) # 0}

\* convert_irreducible was called with exactly one class of lst isomorphic
\* to a reference entry.
OneMatch ==
    /\ call.fn = "convert_irreducible"
    /\ Cardinality(Matched(call.lst, call.irr)) = 1

\* The position of that class, and the product v * w of the value of its
\* reference entry and its weight.
TheMatch == CHOOSE i \in Matched(call.lst, call.irr) : TRUE

MatchValue ==
    call.irr[FirstRef(call.lst[TheMatch], call.irr)].count * call.lst[TheMatch].count

\* The synthetic graph of weight c: no nodes, no edges.
Synthetic(c) == [nodes |-> <<>>, edges |-> <<>>, count |-> c]

\* Positions of the graphs of lst that have no nodes and no edges.
Empties(lst) == {j \in 1..Len(lst) : lst[j].nodes = <<>> /\ lst[j].edges = <<>>}

\* C11 as stated: with exactly one class isomorphic to a reference entry,
\* convert_irreducible removes that class and inserts one synthetic graph
\* of weight v * w, and the other classes keep identity, order and weight.
C11_Substitute ==
    OneMatch =>
        /\ Len(call.ret.ret) = Len(call.lst)
        /\ \E j \in 1..Len(call.ret.ret) :
              /\ call.ret.ret[j] = Synthetic(MatchValue)
              /\ RemoveAt(call.ret.ret, j) = RemoveAt(call.lst, TheMatch)

\* C11 amended: with exactly one class isomorphic to a reference entry,
\* convert_irreducible removes that class; if one of the other classes has
\* no nodes and no edges, v * w is added to the weight of the first of them
\* and nothing is inserted, otherwise one synthetic graph of weight v * w is
\* appended; all else in the other classes keeps identity, order and weight.
C11_SubstituteMerged ==
    OneMatch =>
        LET others == RemoveAt(call.lst, TheMatch)
        IN  IF Empties(others) = {}
            THEN call.ret.ret = Append(others, Synthetic(MatchValue))
            ELSE LET j == CHOOSE e \in Empties(others) : \A e2 \in Empties(others) : e <= e2
                 IN  call.ret.ret = [others EXCEPT ![j].count = others[j].count + MatchValue]

\* convert_irreducible has removed the one matching class from the middle
\* of three classes, the last of which has no nodes and no edges.
C11_Witness ==
    /\ OneMatch
    /\ Len(call.lst) = 3
    /\ TheMatch = 2
    /\ Empties(call.lst) = {3}
    /\ call.lst[1].nodes # call.lst[2].nodes
    /\ Len(call.ret.ret) = 2

\* The product of reference value and weight over the classes of lst from
\* position i on that are isomorphic to a reference entry.
RECURSIVE MatchProduct(_, _, _)
MatchProduct(lst, irr, i) ==
    IF i > Len(lst) THEN 1
    ELSE (IF FirstRef(lst[i], irr) # 0
          THEN irr[FirstRef(lst[i], irr)].count * lst[i].count
          ELSE 1) * MatchProduct(lst, irr, i + 1)

\* C12: convert_irreducible removes every class of lst that is isomorphic
\* to a reference entry, wherever the matches are; the accumulator it puts
\* in the synthetic graph is the product of reference value and weight over
\* all of them; the classes without a match stay as they are.
C12_AllMatchesRemoved ==
    (call.fn = "convert_irreducible" /\ call.irr # <<>>) =>
        /\ call.ret.removed = SelectSeq(call.lst, LAMBDA g : FirstRef(g, call.irr) # 0)
        /\ call.ret.count = MatchProduct(call.lst, call.irr, 1)
        /\ \A i \in 1..Len(call.lst) :
              (FirstRef(call.lst[i], call.irr) = 0 /\ call.lst[i].nodes # <<>>)
                 => \E j \in 1..Len(call.ret.ret) : call.ret.ret[j] = call.lst[i]

\* ------------------------------------------------- claims on Graph.__init__
\* The endpoints of the edges in the order in which the list gives them.
RECURSIVE Endpoints(_)
Endpoints(edges) ==
    IF edges = <<>> THEN <<>> ELSE <<Head(edges)[1], Head(edges)[2]>> \o Endpoints(Tail(edges))

\* The first position of x in s.
FirstPos(s, x) == CHOOSE i \in 1..Len(s) : s[i] = x /\ \A j \in 1..(i-1) : s[j] # x

C14_Examples ==
    pc = "done" =>
        /\ input = <<<<1, 1>>>> =>
              final = <<[nodes |-> <<>>, edges |-> <<>>, count |-> 4]>>
        /\ input = <<<<1, 2>>, <<1, 2>>, <<1, 2>>>> =>
              final = <<[nodes |-> <<1, 2>>,
                         edges |-> <<<<1, 2>>, <<1, 2>>, <<1, 2>>>>,
                         count |-> 1]>>

\* main has returned on the input [[1,1]] after the rule (1,1) removed the
\* node.
C14_Witness ==
    /\ pc = "done"
    /\ input = <<<<1, 1>>>>
    /\ Len(final) = 1
    /\ final[1].count = 4

\* ------------------------------------------------ the two loops of simplify
\* The table of the first loop as the rules state it; 0 for no entry.
TableValue(c, l) ==
    IF <<c, l>> = <<1, 1>> THEN 4
    ELSE IF <<c, l>> = <<2, 2>> THEN 4
    ELSE IF <<c, l>> = <<0, 0>> THEN 6
    ELSE IF <<c, l>> = <<1, 0>> THEN 3
    ELSE IF <<c, l>> = <<2, 1>> THEN 2
    ELSE 0

\* The graph g after the visits trace[1..i] of the first loop, each visit
\* doing what its c and l call for.
RECURSIVE Replay(_, _, _)
Replay(g, trace, i) ==
    IF i = 0 THEN g
    ELSE Bind(Replay(g, trace, i - 1), LAMBDA h :
            IF TableValue(trace[i].c, trace[i].l) # 0
            THEN remove_node([h EXCEPT !.count = h.count * TableValue(trace[i].c, trace[i].l)],
                             trace[i].n)
            ELSE IF trace[i].c = 3 /\ trace[i].l = 1
            THEN [node_to_edge(h, trace[i].n) EXCEPT !.count = h.count]
            ELSE h)

\* The product of the table values of the visits trace[1..i] that removed
\* their node.
RECURSIVE TableProduct(_, _)
TableProduct(trace, i) ==
    IF i = 0 THEN 1
    ELSE (IF trace[i].rule = "table" THEN TableValue(trace[i].c, trace[i].l) ELSE 1)
         * TableProduct(trace, i - 1)

\* C15: the first loop of simplify visits the nodes that g.nodes held when
\* the loop started, each once and in that order; the c and l of a visit
\* are taken from the edges as the earlier visits left them; a visit with
\* (c,l) in the table multiplies the count and removes the node, one with
\* (3,1) contracts the node and keeps the count, any other changes nothing;
\* the count after the loop is the count of g times the table values of the
\* removed nodes.
C15_Pass1 ==
    call.fn = "simplify" =>
        LET g  == call.g
            tr == call.ret.trace
        IN  /\ [i \in 1..Len(tr) |-> tr[i].n] = g.nodes
            /\ \A i \in 1..Len(tr) :
                  LET h   == Replay(g, tr, i - 1)
                      nei == SelectSeq(h.edges, LAMBDA e : In(tr[i].n, e))
                  IN  /\ tr[i].c = Len(nei)
                      /\ tr[i].l = Len(SelectSeq(nei, LAMBDA e : e[1] = e[2]))
                      /\ tr[i].rule = (IF TableValue(tr[i].c, tr[i].l) # 0 THEN "table"
                                       ELSE IF tr[i].c = 3 /\ tr[i].l = 1 THEN "contract"
                                       ELSE "none")
            /\ call.ret.post = Replay(g, tr, Len(tr))
            /\ call.ret.post.count = g.count * TableProduct(tr, Len(tr))

\* simplify was called on a graph whose first loop removed a node by the
\* table, then contracted a node whose c and l were (3,1) only once that
\* node was gone, and left a third node alone.
C15_Witness ==
    /\ call.fn = "simplify"
    /\ \E i, j, h \in 1..Len(call.ret.trace) :
          /\ i < j
          /\ call.ret.trace[i].rule = "table"
          /\ call.ret.trace[j].rule = "contract"
          /\ Len(list_nei(call.g, call.ret.trace[j].n)) # 3
          /\ call.ret.trace[h].rule = "none"

\* Positions in g.nodes of the nodes with exactly two edges, neither of
\* them a self-loop.
Eligible(g) ==
    {i \in 1..Len(g.nodes) :
        LET nei == SelectSeq(g.edges, LAMBDA e : In(g.nodes[i], e))
        IN  Len(nei) = 2 /\ \A j \in 1..2 : nei[j][1] # nei[j][2]}

\* C16: the second loop of simplify forks on the first node, in the order
\* of the nodes after the first loop, that has c == 2 and l == 0: it returns
\* ([A, B], True), A the graph after the first loop with that node removed,
\* B that graph with that node contracted, both with the count and all the
\* other nodes of that graph; with no such node it returns that graph alone.
C16_Pass2 ==
    call.fn = "simplify" =>
        LET post == call.ret.post
        IN  IF Eligible(post) = {}
            THEN call.ret.fork = 0 /\ call.ret.graphs = <<post>>
            ELSE LET first == CHOOSE i \in Eligible(post) : \A j \in Eligible(post) : i <= j
                     n     == post.nodes[first]
                     A     == call.ret.graphs[1]
                     B     == call.ret.graphs[2]
                     rest  == SelectSeq(post.nodes, LAMBDA x : x # n)
                 IN  /\ call.ret.fork = n
                     /\ call.ret.m
                     /\ Len(call.ret.graphs) = 2
                     /\ A = remove_node(post, n)
                     /\ B = node_to_edge(post, n)
                     /\ A.count = post.count /\ B.count = post.count
                     /\ A.nodes = rest /\ B.nodes = rest
                     /\ A.edges = SelectSeq(post.edges, LAMBDA e : ~In(n, e))
                     /\ Len(B.edges) = Len(A.edges) + 1

\* simplify has forked on the first of several nodes with c == 2 and
\* l == 0, in a graph that the first loop changed and that has a node
\* before them in the list.
C16_Witness ==
    /\ call.fn = "simplify"
    /\ call.ret.fork # 0
    /\ Cardinality(Eligible(call.ret.post)) >= 2
    /\ 1 \notin Eligible(call.ret.post)
    /\ call.ret.post # call.g

\* ------------------------------------------------------ claims on ownership
\* C17: the graph that simplify forks keeps its nodes, edges and count
\* through the fork and through everything done to a returned branch, and
\* whatever remove_node, node_to_edge and simplify calls are made on one
\* returned branch, the other branch keeps the nodes, edges and count it
\* was returned with.
C17_BranchesIndependent ==
    pc \in {"fork130", "fork134", "fork135", "forked"} =>
        /\ Deref(heap.store, heap.g) = heap.snap.g
        /\ (pc = "forked" /\ heap.on = "a") => Deref(heap.store, heap.b) = heap.snap.b
        /\ (pc = "forked" /\ heap.on = "b") => Deref(heap.store, heap.a) = heap.snap.a

\* A returned branch has been changed by two calls and now holds fewer
\* nodes and other edges than it was returned with.
C17_Witness ==
    /\ pc = "forked"
    /\ heap.on = "b"
    /\ Len(Deref(heap.store, heap.b).nodes) + 2 <= Len(heap.snap.b.nodes)
    /\ Deref(heap.store, heap.b).edges # heap.snap.b.edges
    /\ heap.snap.a.nodes # <<>>

\* C18: every Graph owns its edge list alone; the Graph that main builds
\* from the list init it was called with does not share that list, so the
\* caller's list holds the input edges at every point of main.
C18_CallerListKept ==
    pc \in {"while", "for", "done"} => init = input

\* ---------------------------------------------------------- well-formedness
\* g is well-formed: every edge is a pair of labels that are both in
\* g.nodes, no label occurs twice in g.nodes, every label is > 0 and the
\* count is >= 1.
WellFormed(g) ==
    /\ \A i \in 1..Len(g.edges) :
          /\ Len(g.edges[i]) = 2
          /\ \A j \in 1..2 : \E h \in 1..Len(g.nodes) : g.nodes[h] = g.edges[i][j]
    /\ \A i, j \in 1..Len(g.nodes) : i # j => g.nodes[i] # g.nodes[j]
    /\ \A i \in 1..Len(g.nodes) : g.nodes[i] > 0
    /\ g.count >= 1

\* C19: at every point of main, every graph in queue, every graph in final
\* and every graph that simplify has returned is well-formed.
C19_WellFormed ==
    /\ \A i \in 1..Len(queue) : WellFormed(queue[i])
    /\ \A i \in 1..Len(final) : WellFormed(final[i])
    /\ call.fn = "simplify" =>
          \A i \in 1..Len(call.ret.graphs) : WellFormed(call.ret.graphs[i])

\* simplify has returned two branches, the second with the edge that the
\* contraction appended, while queue and final both hold graphs.
C19_Witness ==
    /\ call.fn = "simplify"
    /\ Len(call.ret.graphs) = 2
    /\ call.ret.graphs[2].edges # <<>>
    /\ Len(call.ret.graphs[2].edges) = Len(call.ret.graphs[1].edges) + 1
    /\ queue # <<>>
    /\ final # <<>>

====
